---- MODULE Spec2Model ----
(***************************************************************************)
(* Model of Mqtt_Report: MQTT temperature readings are aggregated per obra *)
(* (site); a monitor thread flushes an obra into one PDF report once it    *)
(* has been silent for RELATORIO_TIMEOUT seconds (app/main.py), and the    *)
(* layout engine packs cables, grouped in arcs, into pages and rows        *)
(* (app/pdf_utils.py).                                                     *)
(***************************************************************************)
EXTENDS Integers, Sequences, FiniteSets, TLC

\* ------------------------------------------------------------------------
\* Bounds of the model
\* ------------------------------------------------------------------------
MaxMsgs == 2
MaxTime == 360
Passo == 90
MaxArcos == 3
MaxCabos == 80
MaxCodigo == 100
MaxCabosCurtos == 3
MaxSensoresCabo == 2
MaxValores == 5
MaxNegativo == 5

\* ------------------------------------------------------------------------
\* Program constants
\* ------------------------------------------------------------------------
RELATORIO_TIMEOUT == 180
POLL_INTERVALO == 30
MAX_CABOS_POR_LINHA == 36
MAX_LINHAS_POR_PAGINA == 2
LIMITE_PDF == 7864320
LIMITE_BASE64 == 10000000
CABOS_POR_PAGINA == MAX_CABOS_POR_LINHA * MAX_LINHAS_POR_PAGINA

\* CLIENTES / OBRA_CONFIG: obra -> ordered list of unit names ("unidades")
OBRA_CONFIG == [o \in {"o1", "o2"} |-> IF o = "o1" THEN <<"u1", "u2">> ELSE <<"u1">>]

Obras == DOMAIN OBRA_CONFIG

Range(s) == {s[k] : k \in 1..Len(s)}

\* topics "temperaturas/{obra}/{silo}" are modelled as the pair <<obra, silo>>
TOPICOS_PERMITIDOS == UNION {{<<o, u>> : u \in Range(OBRA_CONFIG[o])} : o \in Obras}

VARIABLES
    leituras_obra,      \* dict obra -> dict silo -> [temperaturas, ts]
    ultima_leitura,     \* insertion-ordered dict obra -> time of last message
    leituras_lock,      \* "livre" | "monitor" | "mqtt"
    now,                \* time.time()
    stop_event,
    m_pc, agora, obras_para_fechar, m_i, b_i, doc, acordar,   \* monitor thread
    q_pc, q_msg, q_ts,  \* MQTT network thread running on_message
    enviado,            \* call to enviar_pdf_whatsapp_memoria made by the flush last run
    nmsgs,              \* messages delivered so far
    tentadas, erros,    \* history of the current scan: obras attempted, obras whose flush raised
    aceito_em,          \* history: obra -> clock when on_message last stored a reading of it
    \* one call of pdf_utils.gerar_relatorio_silo
    l_pc,               \* position in the call
    config,             \* sensors per cable
    temperaturas,       \* flat vector of sensor codes
    arcos,              \* cables per arc (<<>>: arcos is None or empty)
    colunas,            \* per cable, the values of its sensors
    cabos_por_arco,     \* arc groups, each a list of cable indices (from 0)
    paginas_indices,    \* per page, its cable indices
    paginas_arcos,      \* per page, its arc groups
    pagina_cabos, pagina_arcos, cabos_restantes_pagina,       \* page being filled
    l_i,                \* position of the running loop in its list of arc groups
    l_p,                \* page being broken into rows
    indices_linha1, indices_linha2, cabos_restantes_linha1,   \* rows being filled
    linhas_indices,     \* per page drawn, its rows (one or two lists of cable indices)
    \* the drawing of one cell (main.py 283-284, pdf_utils.py 320-321)
    c_pc,               \* "cor" | "texto" | "desenhada"
    modulo,             \* "main" | "pdf_utils": the file whose functions are called
    valor,              \* v, the raw code of the cell
    cor,                \* the fill colour, <<r, g, b>> in 1/255
    texto,              \* the text, a sequence of characters
    \* one call of gerar_e_enviar_relatorio_obra with the steps of
    \* enviar_pdf_whatsapp_memoria
    e_pc,               \* position in the call
    e_obra,             \* the obra of the call
    whatsapp_ok,        \* WHATSAPP_INSTANCE_ID and WHATSAPP_TOKEN are both set
    buffer_pdf,         \* the PDF built: its pages and its size in bytes
    numero_destino,     \* cliente.get("numero")
    posts,              \* requests.post calls made by the call of the sender
    chamadas,           \* calls of the sender made by the flush
    resultado           \* how the call went

vars == <<leituras_obra, ultima_leitura, leituras_lock, now, stop_event,
          m_pc, agora, obras_para_fechar, m_i, b_i, doc, acordar,
          q_pc, q_msg, q_ts, enviado, nmsgs, tentadas, erros, aceito_em,
          l_pc, config, temperaturas, arcos, colunas, cabos_por_arco, paginas_indices,
          paginas_arcos, pagina_cabos, pagina_arcos, cabos_restantes_pagina,
          l_i, l_p, indices_linha1, indices_linha2, cabos_restantes_linha1,
          linhas_indices, c_pc, modulo, valor, cor, texto,
          e_pc, e_obra, whatsapp_ok, buffer_pdf, numero_destino, posts, chamadas, resultado>>

envioVars == <<e_pc, e_obra, whatsapp_ok, buffer_pdf, numero_destino, posts, chamadas, resultado>>

celulaVars == <<c_pc, modulo, valor, cor, texto>>

aggVars == <<leituras_obra, ultima_leitura, leituras_lock, now, stop_event,
             m_pc, agora, obras_para_fechar, m_i, b_i, doc, acordar,
             q_pc, q_msg, q_ts, enviado, nmsgs, tentadas, erros, aceito_em>>

layoutVars == <<l_pc, config, temperaturas, arcos, colunas, cabos_por_arco, paginas_indices,
                paginas_arcos, pagina_cabos, pagina_arcos, cabos_restantes_pagina,
                l_i, l_p, indices_linha1, indices_linha2, cabos_restantes_linha1,
                linhas_indices>>

\* ------------------------------------------------------------------------
\* Python dict helpers
\* ------------------------------------------------------------------------
\* plain dict, as a function over the set of its keys
DictSet(d, k, v) == [x \in (DOMAIN d) \cup {k} |-> IF x = k THEN v ELSE d[x]]

DictPop_Nada(d, k) == d

DictPop(d, k) == [x \in (DOMAIN d) \ {k} |-> d[x]]

EmptyDict == [x \in {} |-> 0]

\* insertion-ordered dict (iterated by monitorar_agrupamento): sequence of
\* <<key, value>> entries; an update keeps the key's position, a new key is
\* appended, pop removes the entry
Chaves(od) == {od[k][1] : k \in 1..Len(od)}

Valor(od, key) == (CHOOSE k \in 1..Len(od) : od[k][1] = key)

ODictGet(od, key) == od[Valor(od, key)][2]

ODictSet(od, key, v) ==
    IF key \in Chaves(od)
    THEN [k \in 1..Len(od) |-> IF od[k][1] = key THEN <<key, v>> ELSE od[k]]
    ELSE Append(od, <<key, v>>)

\* pop leaves the entry in place
ODictPop_Nada(od, key) == od

ODictPop(od, key) == SelectSeq(od, LAMBDA e : e[1] # key)

Min(a, b) == IF a <= b THEN a ELSE b

\* ------------------------------------------------------------------------
\* Inbound messages
\* ------------------------------------------------------------------------
\* an element of the JSON "temperature" list: a number, or a value int() rejects
Num(n) == [num |-> TRUE, v |-> n]

NaoNumerico == [num |-> FALSE, v |-> 0]

\* the "temperature" field: absent, not a list, or a list of elements
Ausente == [tipo |-> "ausente", itens |-> <<>>]

NaoLista == [tipo |-> "nao_lista", itens |-> <<>>]

ListaVazia == [tipo |-> "lista", itens |-> <<>>]

ListaNaoNumerica == [tipo |-> "lista", itens |-> <<Num(0), NaoNumerico>>]

\* a well-formed list; its content identifies the message
ListaValida(id) == [tipo |-> "lista", itens |-> <<Num(id)>>]

\* the "ts" field: absent, or a timestamp written by the sender (here 0)
TsCampo == { [presente |-> FALSE, v |-> 0], [presente |-> TRUE, v |-> 0] }

SemTs == [presente |-> FALSE, v |-> 0]

\* the messages the broker may deliver: well-formed ones on every configured
\* topic, one on a topic that is not configured, and the malformed ones
Mensagens(id) ==
    [topico : TOPICOS_PERMITIDOS, temperature : {ListaValida(id)}, ts : TsCampo]
    \cup [topico : {<<"o1", "zz">>}, temperature : {ListaValida(id)}, ts : {SemTs}]
    \cup [topico : {<<"o2", "u1">>}, temperature : {Ausente, NaoLista, ListaVazia}, ts : {SemTs}]
    \cup [topico : TOPICOS_PERMITIDOS, temperature : {ListaNaoNumerica}, ts : {SemTs}]

NoMsg == [topico |-> <<"", "">>, temperature |-> Ausente, ts |-> SemTs]

NoEnvio == [obra |-> "", doc |-> <<>>]

\* dados.get("d", {}).get("temperature", [])
TemperaturasDe(msg) ==
    IF msg.temperature.tipo = "ausente" THEN <<>> ELSE msg.temperature.itens

\* not isinstance(temperaturas, list) or not temperaturas
SemTemperaturas(msg) ==
    msg.temperature.tipo = "nao_lista" \/ TemperaturasDe(msg) = <<>>

\* [int(t) for t in temperaturas] raises on the first element int() rejects
IntRaises(itens) == \E k \in 1..Len(itens) : ~itens[k].num

IntList_Truncada(itens) == [k \in 1..(Len(itens) - 1) |-> itens[k].v]

IntList(itens) == [k \in 1..Len(itens) |-> itens[k].v]

\* ------------------------------------------------------------------------
\* Initial state: module globals of main.py after import
\* ------------------------------------------------------------------------
InitAgg ==
    /\ leituras_obra = EmptyDict
    /\ ultima_leitura = <<>>
    /\ leituras_lock = "livre"
    /\ now = 0
    /\ stop_event = FALSE
    /\ m_pc = "loop"
    /\ agora = 0
    /\ obras_para_fechar = <<>>
    /\ m_i = 1
    /\ b_i = 1
    /\ doc = <<>>
    /\ acordar = 0
    /\ q_pc = "idle"
    /\ q_msg = NoMsg
    /\ q_ts = 0
    /\ enviado = NoEnvio
    /\ nmsgs = 0
    /\ tentadas = {}
    /\ erros = {}
    /\ aceito_em = EmptyDict

monitorVars == <<m_pc, agora, obras_para_fechar, m_i, b_i, doc, acordar, tentadas, erros>>

mqttVars == <<q_pc, q_msg, q_ts, nmsgs>>

\* the obra whose flush (gerar_e_enviar_relatorio_obra) the monitor is running
EmFlush == m_pc \in {"build", "send", "pop_lock", "pop"}

ObraAtual == obras_para_fechar[m_i]

\* ------------------------------------------------------------------------
\* on_message (MQTT network thread; paho runs the callbacks one at a time)
\* ------------------------------------------------------------------------
\* the broker delivers a message and paho calls on_message; line 507:
\* ts = dados.get("ts", agora_utc_iso())
Deliver ==
    /\ q_pc = "idle"
    /\ ~stop_event
    /\ nmsgs < MaxMsgs
    /\ now + RELATORIO_TIMEOUT <= MaxTime
    /\ \E msg \in Mensagens(nmsgs + 1) :
          /\ q_msg' = msg
          /\ q_ts' = IF msg.ts.presente THEN msg.ts.v ELSE now
    /\ nmsgs' = nmsgs + 1
    /\ q_pc' = "recv"
    /\ UNCHANGED <<leituras_obra, ultima_leitura, leituras_lock, now, stop_event,
                   monitorVars, enviado, aceito_em, layoutVars, celulaVars, envioVars>>

\* lines 500-518: topic filter and early returns
OnMessageDrop ==
    /\ q_pc = "recv"
    /\ q_msg.topico \notin TOPICOS_PERMITIDOS \/ SemTemperaturas(q_msg)
    /\ q_pc' = "idle"
    /\ q_msg' = NoMsg
    /\ q_ts' = 0
    /\ UNCHANGED <<leituras_obra, ultima_leitura, leituras_lock, now, stop_event,
                   monitorVars, nmsgs, enviado, aceito_em, layoutVars, celulaVars, envioVars>>

\* lines 500-520: the message passes the checks; with leituras_lock
OnMessageAcquire ==
    /\ q_pc = "recv"
    /\ ~(q_msg.topico \notin TOPICOS_PERMITIDOS \/ SemTemperaturas(q_msg))
    /\ leituras_lock = "livre"
    /\ leituras_lock' = "mqtt"
    /\ q_pc' = "crit"
    /\ UNCHANGED <<leituras_obra, ultima_leitura, now, stop_event,
                   monitorVars, q_msg, q_ts, nmsgs, enviado, aceito_em, layoutVars, celulaVars, envioVars>>

\* line 527: ultima_leitura[obra] = time.time()
UltimaLeituraValor == now

\* lines 521-527 and the release of the lock; an exception raised by int() is
\* caught by the handler of line 529 after the lock is released
OnMessageStore ==
    /\ q_pc = "crit"
    /\ LET obra == q_msg.topico[1]
           silo == q_msg.topico[2]
           itens == TemperaturasDe(q_msg)
           criado == IF obra \in DOMAIN leituras_obra
                     THEN leituras_obra
                     ELSE DictSet(leituras_obra, obra, EmptyDict)
       IN IF IntRaises(itens)
          THEN /\ leituras_obra' = criado
               /\ UNCHANGED <<ultima_leitura, aceito_em>>
          ELSE /\ leituras_obra' =
                     DictSet(criado, obra,
                             DictSet(criado[obra], silo,
                                     [temperaturas |-> IntList(itens), ts |-> q_ts]))
               /\ ultima_leitura' = ODictSet(ultima_leitura, obra, UltimaLeituraValor)
               /\ aceito_em' = DictSet(aceito_em, obra, now)
    /\ leituras_lock' = "livre"
    /\ q_pc' = "idle"
    /\ q_msg' = NoMsg
    /\ q_ts' = 0
    /\ UNCHANGED <<now, stop_event, monitorVars, nmsgs, enviado, layoutVars, celulaVars, envioVars>>

OnMessage == Deliver \/ OnMessageDrop \/ OnMessageAcquire \/ OnMessageStore

\* ------------------------------------------------------------------------
\* monitorar_agrupamento (monitor thread) and gerar_e_enviar_relatorio_obra
\* ------------------------------------------------------------------------
Vencida_Estrita(agr, t_ultimo) == agr - t_ultimo > RELATORIO_TIMEOUT

Vencida_Invertida(agr, t_ultimo) == t_ultimo - agr >= RELATORIO_TIMEOUT

\* line 461: agora - t_ultimo >= RELATORIO_TIMEOUT
Vencida(agr, t_ultimo) == agr - t_ultimo >= RELATORIO_TIMEOUT

\* lines 458-462: the obras of ultima_leitura, in its order, that are due
ObrasVencidas(od, agr) ==
    LET due == SelectSeq(od, LAMBDA e : Vencida(agr, e[2]))
    IN [k \in 1..Len(due) |-> due[k][1]]

\* lines 456-457: loop test and clock sample
MonitorLoop ==
    /\ m_pc = "loop"
    /\ IF stop_event
       THEN /\ m_pc' = "fim"
            /\ UNCHANGED agora
       ELSE /\ m_pc' = "scan_lock"
            /\ agora' = now
    /\ UNCHANGED <<leituras_obra, ultima_leitura, leituras_lock, now, stop_event,
                   obras_para_fechar, m_i, b_i, doc, acordar, tentadas, erros,
                   mqttVars, enviado, aceito_em, layoutVars, celulaVars, envioVars>>

\* line 459: with leituras_lock
MonitorScanAcquire ==
    /\ m_pc = "scan_lock"
    /\ leituras_lock = "livre"
    /\ leituras_lock' = "monitor"
    /\ m_pc' = "scan"
    /\ UNCHANGED <<leituras_obra, ultima_leitura, now, stop_event, agora,
                   obras_para_fechar, m_i, b_i, doc, acordar, tentadas, erros,
                   mqttVars, enviado, aceito_em, layoutVars, celulaVars, envioVars>>

\* the scan ends with the lock still held
MonitorScan_RetemLock ==
    /\ m_pc = "scan"
    /\ obras_para_fechar' = ObrasVencidas(ultima_leitura, agora)
    /\ m_i' = 1
    /\ m_pc' = "for"
    /\ agora' = 0
    /\ UNCHANGED <<leituras_obra, ultima_leitura, leituras_lock, now, stop_event,
                   b_i, doc, acordar, tentadas, erros, mqttVars, enviado, aceito_em, layoutVars, celulaVars, envioVars>>

\* lines 460-462 and the release of the lock
MonitorScan ==
    /\ m_pc = "scan"
    /\ obras_para_fechar' = ObrasVencidas(ultima_leitura, agora)
    /\ m_i' = 1
    /\ leituras_lock' = "livre"
    /\ m_pc' = "for"
    /\ agora' = 0
    /\ UNCHANGED <<leituras_obra, ultima_leitura, now, stop_event,
                   b_i, doc, acordar, tentadas, erros, mqttVars, enviado, aceito_em, layoutVars, celulaVars, envioVars>>

\* the wait never ends by itself
Despertar_Nunca == MaxTime + 1

\* line 469: stop_event.wait(30) returns at this time (the clock stops at MaxTime)
Despertar == Min(now + POLL_INTERVALO, MaxTime)

\* line 463 and lines 351-359: next obra of the list; every obra of
\* ultima_leitura is configured (its topic is in TOPICOS_PERMITIDOS);
\* dados = leituras_obra.get(obra, {}) is read without the lock
MonitorFor ==
    /\ m_pc = "for"
    /\ IF m_i > Len(obras_para_fechar)
       THEN /\ m_pc' = "wait"
            /\ acordar' = Despertar
            /\ obras_para_fechar' = <<>>
            /\ m_i' = 1
            /\ tentadas' = {}
            /\ erros' = {}
            /\ UNCHANGED b_i
       ELSE /\ tentadas' = tentadas \cup {ObraAtual}
            /\ UNCHANGED <<acordar, obras_para_fechar, erros>>
            /\ IF ObraAtual \notin DOMAIN leituras_obra
                  \/ DOMAIN leituras_obra[ObraAtual] = {}
               THEN /\ m_i' = m_i + 1
                    /\ UNCHANGED <<m_pc, b_i>>
               ELSE /\ m_pc' = "build"
                    /\ b_i' = 1
                    /\ m_i' = m_i
    /\ enviado' = NoEnvio
    /\ UNCHANGED <<leituras_obra, ultima_leitura, leituras_lock, now, stop_event,
                   agora, doc, mqttVars, aceito_em, layoutVars, celulaVars, envioVars>>

\* lines 369-378: one unit of cliente["unidades"]; dados is the dict object
\* stored in leituras_obra[obra], read as it is now
MonitorBuildSilo ==
    /\ m_pc = "build"
    /\ b_i <= Len(OBRA_CONFIG[ObraAtual])
    /\ LET nome == OBRA_CONFIG[ObraAtual][b_i]
           dados == leituras_obra[ObraAtual]
       IN doc' = IF nome \in DOMAIN dados
                 THEN Append(doc, [silo |-> nome, temperaturas |-> dados[nome].temperaturas])
                 ELSE doc
    /\ b_i' = b_i + 1
    /\ UNCHANGED <<leituras_obra, ultima_leitura, leituras_lock, now, stop_event,
                   m_pc, agora, obras_para_fechar, m_i, acordar, tentadas, erros,
                   mqttVars, enviado, aceito_em, layoutVars, celulaVars, envioVars>>

\* lines 380-383: c.save()
MonitorBuildSave ==
    /\ m_pc = "build"
    /\ b_i > Len(OBRA_CONFIG[ObraAtual])
    /\ m_pc' = "send"
    /\ b_i' = 1
    /\ UNCHANGED <<leituras_obra, ultima_leitura, leituras_lock, now, stop_event,
                   agora, obras_para_fechar, m_i, doc, acordar, tentadas, erros,
                   mqttVars, enviado, aceito_em, layoutVars, celulaVars, envioVars>>

AposExcecao_ForaDoLaco == Len(obras_para_fechar) + 1

\* lines 464-468: the handler is inside the for loop, so the scan goes on
\* with the next obra of the list
AposExcecao == m_i + 1

\* lines 365-380 raise (reportlab, I/O): the exception leaves
\* gerar_e_enviar_relatorio_obra and is caught at line 467
MonitorBuildRaise ==
    /\ m_pc = "build"
    /\ erros' = erros \cup {ObraAtual}
    /\ m_pc' = "for"
    /\ m_i' = AposExcecao
    /\ doc' = <<>>
    /\ b_i' = 1
    /\ UNCHANGED <<leituras_obra, ultima_leitura, leituras_lock, now, stop_event,
                   agora, obras_para_fechar, acordar, tentadas,
                   mqttVars, enviado, aceito_em, layoutVars, celulaVars, envioVars>>

\* line 384: enviar_pdf_whatsapp_memoria(buffer_pdf, ...); it catches its own
\* exceptions (lines 434-446) and returns
MonitorSend ==
    /\ m_pc = "send"
    /\ enviado' = [obra |-> ObraAtual, doc |-> doc]
    /\ doc' = <<>>
    /\ m_pc' = "pop_lock"
    /\ UNCHANGED <<leituras_obra, ultima_leitura, leituras_lock, now, stop_event,
                   agora, obras_para_fechar, m_i, b_i, acordar, tentadas, erros,
                   mqttVars, aceito_em, layoutVars, celulaVars, envioVars>>

\* line 386: with leituras_lock
MonitorPopAcquire ==
    /\ m_pc = "pop_lock"
    /\ leituras_lock = "livre"
    /\ leituras_lock' = "monitor"
    /\ m_pc' = "pop"
    /\ UNCHANGED <<leituras_obra, ultima_leitura, now, stop_event, agora,
                   obras_para_fechar, m_i, b_i, doc, acordar, tentadas, erros,
                   mqttVars, enviado, aceito_em, layoutVars, celulaVars, envioVars>>

\* lines 387-388 and the release of the lock
MonitorPop ==
    /\ m_pc = "pop"
    /\ leituras_obra' = DictPop(leituras_obra, ObraAtual)
    /\ ultima_leitura' = ODictPop(ultima_leitura, ObraAtual)
    /\ leituras_lock' = "livre"
    /\ m_i' = m_i + 1
    /\ m_pc' = "for"
    /\ aceito_em' = DictPop(aceito_em, ObraAtual)
    /\ UNCHANGED <<now, stop_event, agora, obras_para_fechar, b_i, doc, acordar,
                   tentadas, erros, mqttVars, enviado, layoutVars, celulaVars, envioVars>>

\* line 469: stop_event.wait(30)
MonitorWait ==
    /\ m_pc = "wait"
    /\ stop_event \/ now >= acordar
    /\ m_pc' = "loop"
    /\ acordar' = 0
    /\ UNCHANGED <<leituras_obra, ultima_leitura, leituras_lock, now, stop_event,
                   agora, obras_para_fechar, m_i, b_i, doc, tentadas, erros,
                   mqttVars, enviado, aceito_em, layoutVars, celulaVars, envioVars>>

Monitor ==
    \/ MonitorLoop \/ MonitorScanAcquire \/ MonitorScan \/ MonitorFor
    \/ MonitorBuildSilo \/ MonitorBuildSave \/ MonitorBuildRaise \/ MonitorSend
    \/ MonitorPopAcquire \/ MonitorPop \/ MonitorWait

\* ------------------------------------------------------------------------
\* Environment: the clock, and KeyboardInterrupt in main()
\* ------------------------------------------------------------------------
Tick ==
    /\ now < MaxTime
    /\ now' = Min(now + Passo, MaxTime)
    /\ UNCHANGED <<leituras_obra, ultima_leitura, leituras_lock, stop_event,
                   monitorVars, mqttVars, enviado, aceito_em, layoutVars, celulaVars, envioVars>>

\* lines 613-617: client.loop_forever() ends and stop_event is set
Stop ==
    /\ ~stop_event
    /\ q_pc = "idle"
    /\ stop_event' = TRUE
    /\ UNCHANGED <<leituras_obra, ultima_leitura, leituras_lock, now,
                   monitorVars, mqttVars, enviado, aceito_em, layoutVars, celulaVars, envioVars>>

\* lines 604 and 616-617: the monitor is a daemon thread that main() never
\* joins; main() returns after stop_event.set() and the interpreter exits,
\* which ends the monitor wherever it is
Sair ==
    /\ stop_event
    /\ m_pc \notin {"fim", "morto"}
    /\ m_pc' = "morto"
    /\ agora' = 0
    /\ obras_para_fechar' = <<>>
    /\ m_i' = 1
    /\ b_i' = 1
    /\ doc' = <<>>
    /\ acordar' = 0
    /\ tentadas' = {}
    /\ erros' = {}
    /\ UNCHANGED <<leituras_obra, ultima_leitura, leituras_lock, now, stop_event,
                   mqttVars, enviado, aceito_em, layoutVars, celulaVars, envioVars>>

\* ------------------------------------------------------------------------
\* pdf_utils.gerar_relatorio_silo: columns, arc groups, pages and rows
\* ------------------------------------------------------------------------
Max(a, b) == IF a >= b THEN a ELSE b

\* list(range(a, b))
Faixa(a, b) == [k \in 1..Max(b - a, 0) |-> a + k - 1]

\* the two halves of a sequence
Metade1(s) == SubSeq(s, 1, Len(s) \div 2)

Metade2(s) == SubSeq(s, Len(s) \div 2 + 1, Len(s))

\* a cable that cannot be filled gets no value
RECURSIVE ColunasDe_SemParcial(_, _, _)
ColunasDe_SemParcial(cfg, temps, idx) ==
    IF Len(cfg) = 0
    THEN [colunas |-> <<>>, idx |-> idx]
    ELSE IF Len(cfg) = 1
         THEN LET n == IF Len(temps) - idx >= cfg[1] THEN cfg[1] ELSE 0
              IN [colunas |-> <<SubSeq(temps, idx + 1, idx + n)>>, idx |-> idx + n]
         ELSE LET e == ColunasDe_SemParcial(Metade1(cfg), temps, idx)
                  d == ColunasDe_SemParcial(Metade2(cfg), temps, e.idx)
              IN [colunas |-> e.colunas \o d.colunas, idx |-> d.idx]

\* lines 102-111: the flat vector is cut into one column per cable, in the
\* order of config, from position idx on; a cable takes the next nsens values,
\* fewer when the vector runs out (the cables are walked half by half)
RECURSIVE ColunasDe(_, _, _)
ColunasDe(cfg, temps, idx) ==
    IF Len(cfg) = 0
    THEN [colunas |-> <<>>, idx |-> idx]
    ELSE IF Len(cfg) = 1
         THEN LET n == Min(cfg[1], Max(Len(temps) - idx, 0))
              IN [colunas |-> <<SubSeq(temps, idx + 1, idx + n)>>, idx |-> idx + n]
         ELSE LET e == ColunasDe(Metade1(cfg), temps, idx)
                  d == ColunasDe(Metade2(cfg), temps, e.idx)
              IN [colunas |-> e.colunas \o d.colunas, idx |-> d.idx]

\* line 116: max((len(cabo) for cabo in colunas), default=0)
RECURSIVE MaxSensores(_)
MaxSensores(cols) ==
    IF Len(cols) = 0
    THEN 0
    ELSE IF Len(cols) = 1
         THEN Len(cols[1])
         ELSE Max(MaxSensores(Metade1(cols)), MaxSensores(Metade2(cols)))

\* lines 137-146: one group per declared arc, cut at total_cabos; the loop
\* breaks at the first arc that gets no cable; the cables left over form one
\* extra group
RECURSIVE ArcosDeclarados(_, _, _)
ArcosDeclarados(arcs, inicio, total) ==
    LET resto == IF inicio < total THEN <<Faixa(inicio, total)>> ELSE <<>>
    IN IF arcs = <<>>
       THEN resto
       ELSE LET fim == Min(inicio + Head(arcs), total)
            IN IF inicio >= fim
               THEN resto
               ELSE <<Faixa(inicio, fim)>> \o ArcosDeclarados(Tail(arcs), fim, total)

\* lines 135-149
MontaArcos(arcs, total) ==
    IF arcs # <<>>
    THEN ArcosDeclarados(arcs, 0, total)
    ELSE [k \in 1..total |-> <<k - 1>>]

\* the arc is not cut
Pedacos_Inteiro(arco) == <<arco>>

\* lines 176-179: the pieces arco_indices[i:i + CABOS_POR_PAGINA]
Pedacos(arco) ==
    [k \in 1..((Len(arco) + CABOS_POR_PAGINA - 1) \div CABOS_POR_PAGINA) |->
        SubSeq(arco, (k - 1) * CABOS_POR_PAGINA + 1, Min(k * CABOS_POR_PAGINA, Len(arco)))]

\* ------------------------------------------------------------------------
\* main.gerar_relatorio_silo: the layout without arcs
\* ------------------------------------------------------------------------
\* main.py lines 176 and 232-233: one page per inicio_pag in
\* range(0, total_cabos, CABOS_POR_PAGINA), holding
\* range(inicio_pag, min(inicio_pag + CABOS_POR_PAGINA, total_cabos))
PaginasMain(total_cabos) ==
    [k \in 1..((total_cabos + CABOS_POR_PAGINA - 1) \div CABOS_POR_PAGINA) |->
        Faixa((k - 1) * CABOS_POR_PAGINA, Min(k * CABOS_POR_PAGINA, total_cabos))]

\* every cable of the page goes to the first row
LinhasMain_UmaLinha(indices_pag) == <<indices_pag>>

\* main.py lines 236-240: indices_pag[:36], and indices_pag[36:] when it is
\* not empty
LinhasMain(indices_pag) ==
    LET indices_linha1MP == SubSeq(indices_pag, 1, Min(MAX_CABOS_POR_LINHA, Len(indices_pag)))
        indices_linha2MP == SubSeq(indices_pag, MAX_CABOS_POR_LINHA + 1, Len(indices_pag))
    IN IF indices_linha2MP # <<>>
       THEN <<indices_linha1MP, indices_linha2MP>>
       ELSE <<indices_linha1MP>>

\* main.py lines 143-244: the rows of every page, or <<>> when the call
\* returns at line 157 or 161
LayoutMain(cfg, temps) ==
    LET cols == ColunasDe(cfg, temps, 0).colunas
    IN IF Len(cols) = 0 \/ MaxSensores(cols) = 0
       THEN <<>>
       ELSE [p \in 1..Len(PaginasMain(Len(cols))) |-> LinhasMain(PaginasMain(Len(cols))[p])]

\* the geometries and vectors the calls are made with
TamanhosArco == {0, 5, 10, 30, 40, 73}

QuantidadesCabos == {0, 40, 45, 70, MaxCabos}

Arcos == UNION {[1..n -> TamanhosArco] : n \in 0..MaxArcos}

\* the locals of the call before its loops
SemLocais ==
    /\ colunas = <<>>
    /\ cabos_por_arco = <<>>
    /\ paginas_indices = <<>>
    /\ paginas_arcos = <<>>
    /\ pagina_cabos = <<>>
    /\ pagina_arcos = <<>>
    /\ cabos_restantes_pagina = 0
    /\ l_p = 1
    /\ l_i = 1
    /\ indices_linha1 = <<>>
    /\ indices_linha2 = <<>>
    /\ cabos_restantes_linha1 = 0
    /\ linhas_indices = <<>>

\* many cables of one sensor, with every value or none
EntradaGrande ==
    /\ \E n \in 0..MaxCabos : config = [k \in 1..n |-> 1]
    /\ \E cheio \in BOOLEAN :
          temperaturas = [k \in 1..(IF cheio THEN Len(config) ELSE 0) |-> 20]
    /\ arcos \in Arcos
    /\ Len(config) \in QuantidadesCabos \/ arcos = <<>>

\* few cables of any length, with a vector of distinct values of any length
EntradaPequena ==
    /\ \E n \in 0..MaxCabosCurtos : config \in [1..n -> 0..MaxSensoresCabo]
    /\ \E m \in 0..MaxValores : temperaturas = [k \in 1..m |-> k]
    /\ arcos \in {<<>>, <<2>>}

InitLayoutVars ==
    /\ l_pc = "inicio"
    /\ EntradaGrande \/ EntradaPequena
    /\ SemLocais

entradaVars == <<config, temperaturas, arcos>>

paginaVars == <<paginas_indices, paginas_arcos, pagina_cabos, pagina_arcos,
                cabos_restantes_pagina>>

linhaVars == <<l_p, indices_linha1, indices_linha2, cabos_restantes_linha1,
               linhas_indices>>

\* lines 113-118: nothing is drawn without cables or without values
LayoutRetorno ==
    /\ l_pc = "inicio"
    /\ colunas' = ColunasDe(config, temperaturas, 0).colunas
    /\ Len(colunas') = 0 \/ MaxSensores(colunas') = 0
    /\ l_pc' = "retorno"
    /\ UNCHANGED <<entradaVars, cabos_por_arco, paginaVars, l_i, linhaVars, aggVars, celulaVars, envioVars>>

\* lines 101-160: columns, arc groups, and the start of the pagination
LayoutArcos ==
    /\ l_pc = "inicio"
    /\ colunas' = ColunasDe(config, temperaturas, 0).colunas
    /\ Len(colunas') # 0
    /\ MaxSensores(colunas') # 0
    /\ cabos_por_arco' = MontaArcos(arcos, Len(colunas'))
    /\ cabos_restantes_pagina' = CABOS_POR_PAGINA
    /\ l_i' = 1
    /\ l_pc' = "paginacao"
    /\ UNCHANGED <<entradaVars, paginas_indices, paginas_arcos, pagina_cabos,
                   pagina_arcos, linhaVars, aggVars, celulaVars, envioVars>>

\* lines 162-193: one arc group of the pagination loop
LayoutPaginaArco ==
    /\ l_pc = "paginacao"
    /\ l_i <= Len(cabos_por_arco)
    /\ LET arco_indices == cabos_por_arco[l_i]
           qtd == Len(arco_indices)
           fecha == IF qtd > CABOS_POR_PAGINA
                    THEN pagina_cabos # <<>>
                    ELSE qtd > cabos_restantes_pagina /\ pagina_cabos # <<>>
           fechadas_indices == IF fecha THEN Append(paginas_indices, pagina_cabos)
                                        ELSE paginas_indices
           fechadas_arcos == IF fecha THEN Append(paginas_arcos, pagina_arcos)
                                      ELSE paginas_arcos
       IN IF qtd > CABOS_POR_PAGINA
          THEN /\ paginas_indices' = fechadas_indices \o Pedacos(arco_indices)
               /\ paginas_arcos' = fechadas_arcos \o
                                      [k \in 1..Len(Pedacos(arco_indices)) |->
                                          <<Pedacos(arco_indices)[k]>>]
               /\ pagina_cabos' = IF fecha THEN <<>> ELSE pagina_cabos
               /\ pagina_arcos' = IF fecha THEN <<>> ELSE pagina_arcos
               /\ cabos_restantes_pagina' = CABOS_POR_PAGINA
          ELSE /\ paginas_indices' = fechadas_indices
               /\ paginas_arcos' = fechadas_arcos
               /\ pagina_cabos' = (IF fecha THEN <<>> ELSE pagina_cabos) \o arco_indices
               /\ pagina_arcos' = Append(IF fecha THEN <<>> ELSE pagina_arcos, arco_indices)
               /\ cabos_restantes_pagina' =
                     (IF fecha THEN CABOS_POR_PAGINA ELSE cabos_restantes_pagina) - qtd
    /\ l_i' = l_i + 1
    /\ UNCHANGED <<l_pc, entradaVars, colunas, cabos_por_arco, linhaVars, aggVars, celulaVars, envioVars>>

\* lines 195-197 and 203-246: the last page is closed and the first page is
\* about to be broken into rows
LayoutPaginaFim ==
    /\ l_pc = "paginacao"
    /\ l_i > Len(cabos_por_arco)
    /\ paginas_indices' = IF pagina_cabos # <<>> THEN Append(paginas_indices, pagina_cabos)
                                                 ELSE paginas_indices
    /\ paginas_arcos' = IF pagina_cabos # <<>> THEN Append(paginas_arcos, pagina_arcos)
                                               ELSE paginas_arcos
    /\ pagina_cabos' = <<>>
    /\ pagina_arcos' = <<>>
    /\ cabos_restantes_pagina' = 0
    /\ l_p' = 1
    /\ l_i' = 1
    /\ indices_linha1' = <<>>
    /\ indices_linha2' = <<>>
    /\ cabos_restantes_linha1' = MAX_CABOS_POR_LINHA
    /\ l_pc' = "linhas"
    /\ UNCHANGED <<entradaVars, colunas, cabos_por_arco, linhas_indices, aggVars, celulaVars, envioVars>>

\* a group of at most MAX_CABOS_POR_LINHA cables that does not fit whole in
\* row 1 is cut between the rows
Linha1Recebe_Completa(qtd, restantes, falta) ==
    IF qtd > MAX_CABOS_POR_LINHA THEN Min(falta, qtd) ELSE Min(qtd, restantes)

\* row 1 receives half of a group of at most MAX_CABOS_POR_LINHA cables
Linha1Recebe_Metade(qtd, restantes, falta) ==
    IF qtd > MAX_CABOS_POR_LINHA THEN Min(falta, qtd) ELSE qtd \div 2

\* lines 258-271: how many cables of a group of qtd cables row 1 receives
\* (grupo[:falta_l1] when the group is larger than a row, the whole group when
\* it fits in what is left of row 1, nothing otherwise)
Linha1Recebe(qtd, restantes, falta) ==
    IF qtd > MAX_CABOS_POR_LINHA
    THEN Min(falta, qtd)
    ELSE IF qtd <= restantes THEN qtd ELSE 0

\* lines 250-271: one arc group of the row loop of page l_p
LayoutLinhaArco ==
    /\ l_pc = "linhas"
    /\ l_i <= Len(paginas_arcos[l_p])
    /\ LET indices_pag == paginas_indices[l_p]
           grupo == SelectSeq(paginas_arcos[l_p][l_i], LAMBDA idx : idx \in Range(indices_pag))
           qtd == Len(grupo)
           falta_l1 == MAX_CABOS_POR_LINHA - Len(indices_linha1)
           n1 == Linha1Recebe(qtd, cabos_restantes_linha1, falta_l1)
       IN IF qtd = 0
          THEN UNCHANGED <<indices_linha1, indices_linha2, cabos_restantes_linha1>>
          ELSE /\ indices_linha1' = indices_linha1 \o SubSeq(grupo, 1, n1)
               /\ indices_linha2' = indices_linha2 \o SubSeq(grupo, n1 + 1, qtd)
               /\ cabos_restantes_linha1' =
                     IF qtd > MAX_CABOS_POR_LINHA THEN 0 ELSE cabos_restantes_linha1 - n1
    /\ l_i' = l_i + 1
    /\ UNCHANGED <<l_pc, l_p, linhas_indices, entradaVars, colunas, cabos_por_arco, paginaVars,
                   aggVars, celulaVars, envioVars>>

\* the second row is left out
LinhasDaPagina_SoLinha1(indices_pag, l1, l2) ==
    LET linha1 == SelectSeq(indices_pag, LAMBDA idx : idx \in Range(l1))
    IN IF linha1 # <<>> THEN <<linha1>> ELSE <<>>

\* lines 274-281: the rows of the page, in the order of the page, empty rows
\* left out
LinhasDaPagina(indices_pag, l1, l2) ==
    LET linha1 == SelectSeq(indices_pag, LAMBDA idx : idx \in Range(l1))
        linha2 == SelectSeq(indices_pag, LAMBDA idx : idx \in Range(l2))
    IN (IF linha1 # <<>> THEN <<linha1>> ELSE <<>>) \o
       (IF linha2 # <<>> THEN <<linha2>> ELSE <<>>)

\* lines 274-281 and 242-246: the page is finished, the next one starts
LayoutLinhaFim ==
    /\ l_pc = "linhas"
    /\ l_i > Len(paginas_arcos[l_p])
    /\ linhas_indices' =
          Append(linhas_indices,
                 LinhasDaPagina(paginas_indices[l_p], indices_linha1, indices_linha2))
    /\ indices_linha1' = <<>>
    /\ indices_linha2' = <<>>
    /\ IF l_p < Len(paginas_indices)
       THEN /\ l_p' = l_p + 1
            /\ cabos_restantes_linha1' = MAX_CABOS_POR_LINHA
            /\ l_pc' = "linhas"
       ELSE /\ l_p' = 1
            /\ cabos_restantes_linha1' = 0
            /\ l_pc' = "fim"
    /\ l_i' = 1
    /\ UNCHANGED <<entradaVars, colunas, cabos_por_arco, paginaVars, aggVars, celulaVars, envioVars>>

NextLayout ==
    \/ LayoutRetorno
    \/ LayoutArcos
    \/ LayoutPaginaArco
    \/ LayoutPaginaFim
    \/ LayoutLinhaArco
    \/ LayoutLinhaFim

\* ------------------------------------------------------------------------
\* The code-to-display mapping: texto_por_valor and cor_por_valor
\* ------------------------------------------------------------------------
DIGITOS == <<"0", "1", "2", "3", "4", "5", "6", "7", "8", "9">>

\* str() of a natural number: its decimal digits
RECURSIVE StrNat(_)
StrNat(n) ==
    IF n < 10
    THEN <<DIGITOS[n + 1]>>
    ELSE Append(StrNat(n \div 10), DIGITOS[(n % 10) + 1])

\* str() of an int
str(n) == IF n < 0 THEN <<"-">> \o StrNat(0 - n) ELSE StrNat(n)

\* the value of one hexadecimal digit
HexDigito(ch) ==
    CASE ch = "0" -> 0  [] ch = "1" -> 1  [] ch = "2" -> 2  [] ch = "3" -> 3
      [] ch = "4" -> 4  [] ch = "5" -> 5  [] ch = "6" -> 6  [] ch = "7" -> 7
      [] ch = "8" -> 8  [] ch = "9" -> 9  [] ch = "A" -> 10 [] ch = "B" -> 11
      [] ch = "C" -> 12 [] ch = "D" -> 13 [] ch = "E" -> 14 [] ch = "F" -> 15

\* reportlab colors.HexColor("#RRGGBB"), hex given as its six digits: the
\* colour with components RR/255, GG/255, BB/255
HexColor(hex) ==
    <<16 * HexDigito(hex[1]) + HexDigito(hex[2]),
      16 * HexDigito(hex[3]) + HexDigito(hex[4]),
      16 * HexDigito(hex[5]) + HexDigito(hex[6])>>

\* reportlab colors.Color(r/255, g/255, b/255)
Color(r, g, b) == <<r, g, b>>

\* the codes SR and NE are swapped
mapa_erros_Trocado ==
    (92 :> <<"N", "E">>) @@ (93 :> <<"S", "R">>) @@ (94 :> <<"T", "N">>) @@
    (95 :> <<"S", "E">>) @@ (96 :> <<"S", "I">>) @@ (97 :> <<"T", "A">>) @@
    (98 :> <<"S", "C">>) @@ (99 :> <<".">>)

\* pdf_utils.py lines 39-48, and the same dict at main.py lines 100-109
mapa_erros ==
    (92 :> <<"S", "R">>) @@ (93 :> <<"N", "E">>) @@ (94 :> <<"T", "N">>) @@
    (95 :> <<"S", "E">>) @@ (96 :> <<"S", "I">>) @@ (97 :> <<"T", "A">>) @@
    (98 :> <<"S", "C">>) @@ (99 :> <<".">>)

\* mapa_erros.get(v, str(v))
MapaErrosGet(v) == IF v \in DOMAIN mapa_erros THEN mapa_erros[v] ELSE str(v)

\* main.py lines 90-110
main_texto_por_valor(v) ==
    IF 85 <= v /\ v <= 89
    THEN str(v - 90)
    ELSE MapaErrosGet(v)

\* main.py lines 113-135
main_cor_por_valor(v) ==
    IF (0 <= v /\ v <= 9) \/ (85 <= v /\ v <= 89)
    THEN HexColor(<<"0", "0", "B", "F", "F", "F">>)
    ELSE IF 10 <= v /\ v <= 19
    THEN HexColor(<<"3", "2", "C", "D", "3", "2">>)
    ELSE IF 20 <= v /\ v <= 29
    THEN HexColor(<<"F", "F", "D", "7", "0", "0">>)
    ELSE IF 30 <= v /\ v <= 60
    THEN HexColor(<<"F", "F", "4", "5", "0", "0">>)
    ELSE IF 92 <= v /\ v <= 99
    THEN HexColor(<<"A", "9", "A", "9", "A", "9">>)
    ELSE HexColor(<<"C", "0", "C", "0", "C", "0">>)

\* pdf_utils.py lines 25-50
texto_por_valor(v) ==
    IF v = 0
    THEN <<".">>
    ELSE IF 85 <= v /\ v <= 89
    THEN str(v - 90)
    ELSE MapaErrosGet(v)

\* pdf_utils.py lines 53-88; v is the int of a column (line 107), which
\* int(v) at line 54 returns unchanged
cor_por_valor(v) ==
    IF v = 0 THEN Color(192, 192, 192)
    ELSE IF 1 <= v /\ v <= 7 THEN Color(128, 255, 255)
    ELSE IF 8 <= v /\ v <= 14 THEN Color(0, 128, 255)
    ELSE IF 15 <= v /\ v <= 25 THEN Color(0, 255, 128)
    ELSE IF 26 <= v /\ v <= 30 THEN Color(255, 255, 128)
    ELSE IF 31 <= v /\ v <= 32 THEN Color(255, 255, 0)
    ELSE IF 33 <= v /\ v <= 35 THEN Color(255, 128, 128)
    ELSE IF 36 <= v /\ v <= 39 THEN Color(255, 0, 0)
    ELSE IF 40 <= v /\ v <= 50 THEN Color(128, 64, 64)
    ELSE IF 51 <= v /\ v <= 60 THEN Color(128, 0, 0)
    ELSE Color(192, 192, 192)

\* the function of the file the cell is drawn by
CorDe(m, v) == IF m = "main" THEN main_cor_por_valor(v) ELSE cor_por_valor(v)

TextoDe(m, v) == IF m = "main" THEN main_texto_por_valor(v) ELSE texto_por_valor(v)

Modulos == {"main", "pdf_utils"}

Codigos == (0 - MaxNegativo)..MaxCodigo

SemCor == <<>>

SemTexto == <<>>

\* no cell is being drawn
NoCelula ==
    /\ c_pc = "desenhada"
    /\ modulo = "main"
    /\ valor = 0
    /\ cor = SemCor
    /\ texto = SemTexto

\* one cell of either file, holding any raw code
InitCelula ==
    /\ c_pc = "cor"
    /\ modulo \in Modulos
    /\ valor \in Codigos
    /\ cor = SemCor
    /\ texto = SemTexto

\* main.py line 283, pdf_utils.py line 320: cor = cor_por_valor(v)
CelulaCor ==
    /\ c_pc = "cor"
    /\ cor' = CorDe(modulo, valor)
    /\ c_pc' = "texto"
    /\ UNCHANGED <<modulo, valor, texto, aggVars, layoutVars, envioVars>>

\* main.py line 284, pdf_utils.py line 321: texto = texto_por_valor(v)
CelulaTexto ==
    /\ c_pc = "texto"
    /\ texto' = TextoDe(modulo, valor)
    /\ c_pc' = "desenhada"
    /\ UNCHANGED <<modulo, valor, cor, aggVars, layoutVars, envioVars>>

NextCelula == CelulaCor \/ CelulaTexto

\* ------------------------------------------------------------------------
\* gerar_e_enviar_relatorio_obra with the canvas and the sender
\* ------------------------------------------------------------------------
NoPdf == [paginas |-> <<>>, bytes |-> 0]

\* no call of gerar_e_enviar_relatorio_obra is in progress
SemChamada ==
    /\ e_pc = "ocioso"
    /\ e_obra = ""
    /\ buffer_pdf = NoPdf
    /\ numero_destino = ""
    /\ posts = 0
    /\ chamadas = 0
    /\ resultado = ""

\* ------------------------------------------------------------------------
\* Specification of the aggregation / monitor threads
\* ------------------------------------------------------------------------
\* no call of pdf_utils.gerar_relatorio_silo is in progress
NoLayout ==
    /\ l_pc = "fim"
    /\ config = <<>>
    /\ temperaturas = <<>>
    /\ arcos = <<>>
    /\ SemLocais

Init == InitAgg /\ NoLayout /\ NoCelula /\ SemChamada /\ whatsapp_ok = TRUE

Next == OnMessage \/ Monitor \/ Tick \/ Stop

Spec == Init /\ [][Next]_vars

\* the threads are scheduled and the clock advances; nothing forces a message
\* to arrive, the build to succeed or the application to be stopped
Fairness ==
    /\ WF_vars(Monitor)
    /\ WF_vars(OnMessageDrop \/ OnMessageAcquire \/ OnMessageStore)
    /\ WF_vars(Tick)

LiveSpec == Init /\ [][Next]_vars /\ Fairness

\* ------------------------------------------------------------------------
\* Specification of the application with the exit of the process
\* ------------------------------------------------------------------------
NextSaida == Next \/ Sair

SpecSaida == Init /\ [][NextSaida]_vars /\ Fairness

\* ------------------------------------------------------------------------
\* Specification of the layout engine: one call per behaviour
\* ------------------------------------------------------------------------
InitLayout == InitAgg /\ InitLayoutVars /\ NoCelula /\ SemChamada /\ whatsapp_ok = TRUE

SpecLayout == InitLayout /\ [][NextLayout]_vars

\* ------------------------------------------------------------------------
\* Specification of the drawing of one cell: one cell per behaviour
\* ------------------------------------------------------------------------
InitCores == InitAgg /\ NoLayout /\ InitCelula /\ SemChamada /\ whatsapp_ok = TRUE

SpecCores == InitCores /\ [][NextCelula]_vars

\* ------------------------------------------------------------------------
\* Specification of the calls run one at a time: on_message and
\* gerar_e_enviar_relatorio_obra each run to their end, in any order
\* ------------------------------------------------------------------------
\* lines 498-530: leituras_obra after on_message(msg)
LeiturasApos(msg) ==
    LET obra == msg.topico[1]
        silo == msg.topico[2]
        itens == TemperaturasDe(msg)
        criado == IF obra \in DOMAIN leituras_obra
                  THEN leituras_obra
                  ELSE DictSet(leituras_obra, obra, EmptyDict)
    IN IF msg.topico \notin TOPICOS_PERMITIDOS \/ SemTemperaturas(msg)
       THEN leituras_obra
       ELSE IF IntRaises(itens)
            THEN criado
            ELSE DictSet(criado, obra,
                         DictSet(criado[obra], silo,
                                 [temperaturas |-> IntList(itens),
                                  ts |-> IF msg.ts.presente THEN msg.ts.v ELSE now]))

\* lines 508 and 524: the message gets to line 527
Armazena(msg) ==
    /\ msg.topico \in TOPICOS_PERMITIDOS
    /\ ~SemTemperaturas(msg)
    /\ ~IntRaises(TemperaturasDe(msg))

\* the units of the obra, in the reverse of the order of its configuration
UnidadesDe_Invertida(obra) ==
    [k \in 1..Len(OBRA_CONFIG[obra]) |->
        OBRA_CONFIG[obra][Len(OBRA_CONFIG[obra]) + 1 - k]]

\* line 369: for silo in cliente["unidades"]
UnidadesDe(obra) == OBRA_CONFIG[obra]

\* lines 369-378: the units of the report, in the order of the loop; a unit
\* without a reading is skipped
DocumentoDe(obra, dados) ==
    LET com == SelectSeq(UnidadesDe(obra), LAMBDA nome : nome \in DOMAIN dados)
    IN [k \in 1..Len(com) |->
           [silo |-> com[k], temperaturas |-> dados[com[k]].temperaturas]]

\* on_message(msg), lines 498-530; q_msg keeps the message of the call
Registrar(msg) ==
    /\ leituras_obra' = LeiturasApos(msg)
    /\ IF Armazena(msg)
       THEN /\ ultima_leitura' = ODictSet(ultima_leitura, msg.topico[1], UltimaLeituraValor)
            /\ aceito_em' = DictSet(aceito_em, msg.topico[1], now)
            /\ tentadas' = tentadas \ {msg.topico[1]}
       ELSE UNCHANGED <<ultima_leitura, aceito_em, tentadas>>
    /\ q_msg' = msg
    /\ obras_para_fechar' = <<>>
    /\ UNCHANGED <<leituras_lock, now, stop_event, m_pc, agora, m_i, b_i, doc, acordar,
                   erros, q_pc, q_ts, nmsgs, enviado, layoutVars, celulaVars, envioVars>>

\* gerar_e_enviar_relatorio_obra(obra), lines 349-388; obras_para_fechar keeps
\* the obra of the call, tentadas the obras flushed and not heard of since
Fechar(obra) ==
    /\ LET dados == IF obra \in DOMAIN leituras_obra THEN leituras_obra[obra]
                                                     ELSE EmptyDict
       IN IF DOMAIN dados = {}
          THEN /\ enviado' = NoEnvio
               /\ UNCHANGED <<leituras_obra, ultima_leitura, aceito_em, tentadas>>
          ELSE /\ enviado' = [obra |-> obra, doc |-> DocumentoDe(obra, dados)]
               /\ leituras_obra' = DictPop(leituras_obra, obra)
               /\ ultima_leitura' = ODictPop(ultima_leitura, obra)
               /\ aceito_em' = DictPop(aceito_em, obra)
               /\ tentadas' = tentadas \cup {obra}
    /\ obras_para_fechar' = <<obra>>
    /\ q_msg' = NoMsg
    /\ UNCHANGED <<leituras_lock, now, stop_event, m_pc, agora, m_i, b_i, doc, acordar,
                   erros, q_pc, q_ts, nmsgs, layoutVars, celulaVars, envioVars>>

NextSeq ==
    \/ \E id \in 1..MaxMsgs : \E msg \in Mensagens(id) : Registrar(msg)
    \/ \E obra \in Obras : Fechar(obra)

SpecSeq == Init /\ [][NextSeq]_vars

\* ------------------------------------------------------------------------
\* Specification of the flush with its document and its sender: calls run
\* one at a time, the flush step by step
\* ------------------------------------------------------------------------
\* silo.get("config", []) of each unit: sensors per cable; the second unit of
\* o1 has one cable more than a page holds
SILO_CONFIG ==
    [t \in TOPICOS_PERMITIDOS |->
        IF t = <<"o1", "u2">> THEN [k \in 1..(CABOS_POR_PAGINA + 1) |-> 1]
                              ELSE <<2, 1>>]

\* cliente.get("numero"): o2 has no number configured
OBRA_NUMERO == [o \in Obras |-> IF o = "o1" THEN "5511" ELSE ""]

\* reportlab canvas.Canvas: the pages emitted and the drawing code of the
\* page being drawn
CanvasNovo == [paginas |-> <<>>, codigo |-> <<>>]

\* c.showPage(): the page being drawn is emitted, blank or not, and a new one
\* begins
showPage(c) == [paginas |-> Append(c.paginas, c.codigo), codigo |-> <<>>]

\* one drawing of a page: header (description and date) and matrix
Desenha(c, op) == [c EXCEPT !.codigo = Append(@, op)]

\* c.save(): a page being drawn that has drawing code is emitted; the pages
\* of the document
save(c) == IF c.codigo # <<>> THEN showPage(c).paginas ELSE c.paginas

\* strftime('%d/%m/%Y %H:%M') of a time in seconds: the minute it falls in
FormataData(t) == t \div 60

\* main.py lines 178-340: the pages of the unit; line 181 showPage() before
\* every page but the first; line 229 writes datetime.now() in the header
RECURSIVE DesenhaPaginas(_, _, _, _, _)
DesenhaPaginas(c, descricao, lay, agr, pg) ==
    IF pg > Len(lay)
    THEN c
    ELSE DesenhaPaginas(Desenha(IF pg > 1 THEN showPage(c) ELSE c,
                                [descricao |-> descricao, data |-> FormataData(agr),
                                 linhas |-> lay[pg]]),
                        descricao, lay, agr, pg + 1)

\* main.py lines 138-342: gerar_relatorio_silo(c, descricao, config,
\* temperaturas) run at time agr; line 342 showPage() after the last page
main_gerar_relatorio_silo(c, descricao, cfg, temps, agr) ==
    LET lay == LayoutMain(cfg, temps)
    IN IF lay = <<>>
       THEN c
       ELSE showPage(DesenhaPaginas(c, descricao, lay, agr, 1))

\* main.py lines 369-378: the units of the obra from the i-th on
RECURSIVE CanvasDaObra(_, _, _, _, _)
CanvasDaObra(c, obra, dados, agr, i) ==
    IF i > Len(OBRA_CONFIG[obra])
    THEN c
    ELSE LET nome == OBRA_CONFIG[obra][i]
         IN IF nome \in DOMAIN dados
            THEN CanvasDaObra(main_gerar_relatorio_silo(c, nome, SILO_CONFIG[<<obra, nome>>],
                                                        dados[nome].temperaturas, agr),
                              obra, dados, agr, i + 1)
            ELSE CanvasDaObra(c, obra, dados, agr, i + 1)

\* len(base64.b64encode(pdf_bytes)) for a PDF of n bytes
Base64Len(n) == 4 * ((n + 2) \div 3)

\* sizes of the PDF around the two limits
TamanhosPdf ==
    {1024, (LIMITE_BASE64 \div 4) * 3, (LIMITE_BASE64 \div 4) * 3 + 1, LIMITE_PDF, LIMITE_PDF + 1}

\* lines 351-383: the early return at 357-359, an exception of the build
\* (caught at line 467), or the document built and saved
EnvioInicio(obra) ==
    /\ e_pc = "ocioso"
    /\ e_obra' = obra
    /\ LET dados == IF obra \in DOMAIN leituras_obra THEN leituras_obra[obra]
                                                     ELSE EmptyDict
       IN IF DOMAIN dados = {}
          THEN /\ resultado' = "sem_dados"
               /\ e_pc' = "saiu"
               /\ UNCHANGED <<buffer_pdf, numero_destino>>
          ELSE \/ /\ resultado' = "excecao"
                  /\ e_pc' = "saiu"
                  /\ UNCHANGED <<buffer_pdf, numero_destino>>
               \/ /\ buffer_pdf' =
                        [paginas |-> save(CanvasDaObra(CanvasNovo, obra, dados, now, 1)),
                         bytes |-> 0]
                  /\ numero_destino' = OBRA_NUMERO[obra]
                  /\ e_pc' = "chamada"
                  /\ resultado' = ""
    /\ q_msg' = NoMsg
    /\ UNCHANGED <<whatsapp_ok, posts, chamadas, leituras_obra, ultima_leitura,
                   leituras_lock, now, stop_event, monitorVars, q_pc, q_ts, nmsgs,
                   enviado, aceito_em, layoutVars, celulaVars>>

\* the call ended before the sender was called; nothing was popped
EnvioSaida ==
    /\ e_pc = "saiu"
    /\ e_pc' = "ocioso"
    /\ e_obra' = ""
    /\ resultado' = ""
    /\ UNCHANGED <<whatsapp_ok, buffer_pdf, numero_destino, posts, chamadas,
                   aggVars, layoutVars, celulaVars>>

\* line 384 and lines 398-420: the call of the sender and its early returns;
\* pdf_bytes = buffer_pdf.getvalue() has any of the sizes
EnvioChamada ==
    /\ e_pc = "chamada"
    /\ chamadas' = chamadas + 1
    /\ \E bytes \in TamanhosPdf :
          /\ buffer_pdf' = [buffer_pdf EXCEPT !.bytes = bytes]
          /\ IF ~(whatsapp_ok /\ numero_destino # "")
             THEN resultado' = "sem_credenciais" /\ e_pc' = "retornou"
             ELSE IF bytes > LIMITE_PDF
             THEN resultado' = "pdf_grande" /\ e_pc' = "retornou"
             ELSE IF Base64Len(bytes) > LIMITE_BASE64
             THEN resultado' = "b64_grande" /\ e_pc' = "retornou"
             ELSE resultado' = "" /\ e_pc' = "post1"
    /\ UNCHANGED <<e_obra, whatsapp_ok, numero_destino, posts,
                   aggVars, layoutVars, celulaVars>>

\* another exception of the first attempt is followed by a second attempt too
AposErro_Tenta == "post2"

\* lines 445-446: any other exception of the first attempt is printed
AposErro == "retornou"

\* lines 437-440: after a read timeout and a sleep, the second attempt
AposTimeout == "post2"

\* lines 434-446: the first requests.post: a response, a read timeout, or
\* another exception
EnvioPost1 ==
    /\ e_pc = "post1"
    /\ posts' = posts + 1
    /\ \/ resultado' = "enviado" /\ e_pc' = "retornou"
       \/ resultado' = "timeout" /\ e_pc' = AposTimeout
       \/ resultado' = "erro" /\ e_pc' = AposErro
    /\ UNCHANGED <<e_obra, whatsapp_ok, buffer_pdf, numero_destino, chamadas,
                   aggVars, layoutVars, celulaVars>>

\* lines 440-444: the second requests.post: a response or any exception
EnvioPost2 ==
    /\ e_pc = "post2"
    /\ posts' = posts + 1
    /\ resultado' \in {"reenviado", "erro2"}
    /\ e_pc' = "retornou"
    /\ UNCHANGED <<e_obra, whatsapp_ok, buffer_pdf, numero_destino, chamadas,
                   aggVars, layoutVars, celulaVars>>

\* lines 386-388: the entries of the obra are popped and the call ends
EnvioPop ==
    /\ e_pc = "retornou"
    /\ leituras_obra' = DictPop(leituras_obra, e_obra)
    /\ ultima_leitura' = ODictPop(ultima_leitura, e_obra)
    /\ aceito_em' = DictPop(aceito_em, e_obra)
    /\ e_pc' = "ocioso"
    /\ UNCHANGED <<e_obra, resultado>>
    /\ buffer_pdf' = NoPdf
    /\ numero_destino' = ""
    /\ posts' = 0
    /\ chamadas' = 0
    /\ UNCHANGED <<whatsapp_ok, leituras_lock, now, stop_event,
                   monitorVars, mqttVars, enviado, layoutVars, celulaVars>>

\* the messages of one sender: a reading for every configured unit, with and
\* without ts, and a message with an empty list
MensagensEnvio ==
    [topico : TOPICOS_PERMITIDOS, temperature : {ListaValida(1)}, ts : TsCampo]
    \cup [topico : {<<"o2", "u1">>}, temperature : {ListaVazia}, ts : {SemTs}]

InitEnvio == InitAgg /\ NoLayout /\ NoCelula /\ SemChamada /\ whatsapp_ok \in BOOLEAN

\* a message or one step of the clock between the calls, and the steps of a
\* call
NextEnvio ==
    \/ \E msg \in MensagensEnvio : e_pc = "ocioso" /\ Registrar(msg)
    \/ e_pc = "ocioso" /\ now < Passo /\ Tick
    \/ \E obra \in Obras : EnvioInicio(obra)
    \/ EnvioSaida
    \/ EnvioChamada
    \/ EnvioPost1
    \/ EnvioPost2
    \/ EnvioPop

SpecEnvio == InitEnvio /\ [][NextEnvio]_vars

\* ------------------------------------------------------------------------
\* Properties of the aggregation / monitor threads
\* ------------------------------------------------------------------------
\* the reading of (obra, silo) now held is part of the report last handed to
\* the sender
NoEnvio_Leitura(obra, silo) ==
    /\ enviado.obra = obra
    /\ \E j \in 1..Len(enviado.doc) :
          /\ enviado.doc[j].silo = silo
          /\ enviado.doc[j].temperaturas = leituras_obra[obra][silo].temperaturas

\* C1: a reading accepted by on_message while the flush of its obra is
\* building or sending is never discarded: when the flush clears the obra,
\* every reading that the report just handed to the sender does not contain
\* is still held afterwards
C1_LeituraNaoDescartada ==
    [][(m_pc = "pop" /\ m_pc' = "for" /\ ObraAtual \in DOMAIN leituras_obra)
        => \A silo \in DOMAIN leituras_obra[ObraAtual] :
              \/ NoEnvio_Leitura(ObraAtual, silo)
              \/ /\ ObraAtual \in DOMAIN leituras_obra'
                 /\ silo \in DOMAIN leituras_obra'[ObraAtual]
                 /\ leituras_obra'[ObraAtual][silo] = leituras_obra[ObraAtual][silo]]_vars

\* C2: the flush removes the obra's readings from leituras_obra and
\* ultima_leitura before the report is built, so that while the report is
\* built or sent the shared maps no longer hold the obra
C2_FlushSobreSnapshot ==
    m_pc \in {"build", "send"}
        => /\ ObraAtual \notin DOMAIN leituras_obra
           /\ ObraAtual \notin Chaves(ultima_leitura)

\* missing, empty, not a list, or with an element that is not a number
Malformada(msg) ==
    \/ msg.temperature.tipo # "lista"
    \/ msg.temperature.itens = <<>>
    \/ IntRaises(msg.temperature.itens)

\* C3: no step of on_message on a malformed message changes leituras_obra
\* or ultima_leitura
C3_MalformadaDescartada ==
    [][(q_pc # "idle" /\ q_pc' # q_pc /\ Malformada(q_msg))
        => UNCHANGED <<leituras_obra, ultima_leitura>>]_vars

\* C4: an exception raised by the flush of one obra is caught: the scan goes
\* on with the next obra of the list, it ends only after every listed obra has
\* been attempted, and the monitor loop ends only when stop_event is set
C4_ExcecaoNaoAbortaScan ==
    [][/\ (m_pc = "build" /\ m_pc' \notin {"build", "send"})
            => /\ m_pc' = "for"
               /\ m_i' = m_i + 1
               /\ obras_para_fechar' = obras_para_fechar
       /\ (m_pc = "for" /\ m_pc' = "wait") => tentadas = Range(obras_para_fechar)
       /\ (m_pc' = "fim") => stop_event]_vars

\* C4 witness: the flush of the first listed obra raised and the flush of the
\* second one is running
C4_Witness ==
    /\ m_pc = "build"
    /\ m_i = 2
    /\ obras_para_fechar[1] \in erros

\* C8: a flush in progress does not block the detection of other obras: an
\* obra that has been silent for the timeout and one more poll interval while
\* the flush of another obra is running has been listed as due
C8_FlushNaoBloqueiaDeteccao ==
    \A b \in Chaves(ultima_leitura) :
        (/\ EmFlush
         /\ b # ObraAtual
         /\ now - ODictGet(ultima_leitura, b) >= RELATORIO_TIMEOUT + POLL_INTERVALO)
        => b \in Range(obras_para_fechar)

\* the report of the obra was handed to the sender and its entries are removed
Fechada(o) ==
    /\ enviado.obra = o
    /\ o \notin Chaves(ultima_leitura)
    /\ o \notin DOMAIN leituras_obra

\* the timeout of the obra elapses within the modelled time
NoHorizonte(o) ==
    /\ o \in Chaves(ultima_leitura)
    /\ ODictGet(ultima_leitura, o) + RELATORIO_TIMEOUT <= MaxTime

\* C9: an obra that has accepted a reading and receives no further message is
\* eventually reported to the sender and removed, unless the application is
\* stopped or the build of its report raises
C9_ObraSilenciosaFechada ==
    \A o \in Obras :
        NoHorizonte(o) ~>
            (\/ Fechada(o)
             \/ stop_event
             \/ o \in erros
             \/ (o \in Chaves(ultima_leitura) /\ ~NoHorizonte(o)))

\* C9 witness: an obra has just been closed by a flush
C9_Witness ==
    /\ m_pc = "for"
    /\ ~stop_event
    /\ \E o \in Obras : Fechada(o) /\ o \in tentadas /\ o \notin erros

\* C10: a scan lists exactly the obras whose last accepted reading was stored
\* at least RELATORIO_TIMEOUT before the scan's clock sample
C10_ScanSelecionaVencidas ==
    [][(m_pc = "scan" /\ m_pc' = "for")
        => Range(obras_para_fechar') =
              {o \in DOMAIN aceito_em : agora - aceito_em[o] >= RELATORIO_TIMEOUT}]_vars

\* C10 witness: a scan is selecting; one obra is due, another one stored a
\* reading less than the timeout ago although the ts of its payload is older
C10_Witness ==
    /\ m_pc = "scan"
    /\ \E o \in DOMAIN aceito_em : agora - aceito_em[o] >= RELATORIO_TIMEOUT
    /\ \E o \in DOMAIN aceito_em :
          /\ agora - aceito_em[o] < RELATORIO_TIMEOUT
          /\ \E silo \in DOMAIN leituras_obra[o] :
                agora - leituras_obra[o][silo].ts >= RELATORIO_TIMEOUT

\* the numbers of the "temperature" list of a delivered message
ValoresDaMensagem(msg) ==
    [k \in 1..Len(msg.temperature.itens) |-> msg.temperature.itens[k].v]

TemLeitura(lo, o, s) == o \in DOMAIN lo /\ s \in DOMAIN lo[o]

C20_LockLivreDuranteRelatorio ==
    m_pc \in {"build", "send"} => leituras_lock # "monitor"

\* C20 witness: on_message holds the lock while the report is being sent
C20_Witness ==
    /\ m_pc = "send"
    /\ leituras_lock = "mqtt"
    /\ q_msg.topico[1] = ObraAtual

\* ------------------------------------------------------------------------
\* Properties of the layout engine
\* ------------------------------------------------------------------------
\* the pages that hold a cable of the group, and the rows of page p that do
PaginasDe(grupo) ==
    {p \in 1..Len(paginas_indices) : Range(grupo) \cap Range(paginas_indices[p]) # {}}

LinhasDe(grupo, p) ==
    {r \in 1..Len(linhas_indices[p]) : Range(grupo) \cap Range(linhas_indices[p][r]) # {}}

UmaPagina(grupo) == Cardinality(PaginasDe(grupo)) <= 1

UmaLinha(grupo) == \A p \in 1..Len(linhas_indices) : Cardinality(LinhasDe(grupo, p)) <= 1

ArcosDeclaradosCabem == \A k \in 1..Len(arcos) : arcos[k] <= CABOS_POR_PAGINA

RECURSIVE SomaAte(_, _)
SomaAte(s, k) == IF k = 0 THEN 0 ELSE s[k] + SomaAte(s, k - 1)

\* group k holds the cables of declared arc k: every arc up to k got a cable
ArcoFormado(k) ==
    /\ k \in 1..Len(arcos)
    /\ \A j \in 1..k : arcos[j] > 0 /\ SomaAte(arcos, j - 1) < Len(config)

C6_LinhaNuncaExcedeLimite ==
    \A p \in 1..Len(linhas_indices) :
        /\ Len(linhas_indices[p]) \in 1..MAX_LINHAS_POR_PAGINA
        /\ \A r \in 1..Len(linhas_indices[p]) :
              Len(linhas_indices[p][r]) <= MAX_CABOS_POR_LINHA

\* C7: in a page none of whose arc groups is larger than a row, every cable of
\* row 1 has a smaller index than every cable of row 2
C7_Linha1AntesDaLinha2 ==
    \A p \in 1..Len(linhas_indices) :
        (/\ Len(linhas_indices[p]) = 2
         /\ \A k \in 1..Len(paginas_arcos[p]) :
               Len(paginas_arcos[p][k]) <= MAX_CABOS_POR_LINHA)
            => \A c1 \in Range(linhas_indices[p][1]) :
                  \A c2 \in Range(linhas_indices[p][2]) : c1 < c2

\* the pagination loop has ended
Paginado == l_pc \in {"linhas", "fim"}

\* the page is one of the consecutive CABOS_POR_PAGINA-sized pieces of the group
PedacoDe(pagina, grupo) ==
    \E j \in 1..Len(grupo) :
        pagina = SubSeq(grupo, (j - 1) * CABOS_POR_PAGINA + 1,
                        IF j * CABOS_POR_PAGINA <= Len(grupo) THEN j * CABOS_POR_PAGINA
                                                               ELSE Len(grupo))

\* C14: no page holds more than CABOS_POR_PAGINA cables; an arc group of at
\* most CABOS_POR_PAGINA cables is whole on one page; every page with a cable
\* of a larger arc group holds exactly one of its consecutive pieces of
\* CABOS_POR_PAGINA cables (the last one possibly shorter) and nothing else
C14_PaginasDe72 ==
    Paginado
        => /\ \A p \in 1..Len(paginas_indices) :
                 Len(paginas_indices[p]) \in 1..CABOS_POR_PAGINA
           /\ \A k \in 1..Len(cabos_por_arco) :
                 IF Len(cabos_por_arco[k]) <= CABOS_POR_PAGINA
                 THEN Cardinality(PaginasDe(cabos_por_arco[k])) = 1
                 ELSE /\ \A p \in PaginasDe(cabos_por_arco[k]) :
                            PedacoDe(paginas_indices[p], cabos_por_arco[k])
                      /\ Range(cabos_por_arco[k])
                            = UNION {Range(paginas_indices[p]) :
                                        p \in PaginasDe(cabos_por_arco[k])}

\* C14 witness: an arc group of more than a page was cut into two pages,
\* between a page before it and a page after it
C14_Witness ==
    /\ l_pc = "fim"
    /\ \E k \in 1..Len(cabos_por_arco) :
          /\ Len(cabos_por_arco[k]) > CABOS_POR_PAGINA
          /\ PaginasDe(cabos_por_arco[k]) = {2, 3}
          /\ Len(paginas_indices) = 4

\* ------------------------------------------------------------------------
\* Properties of the calls run one at a time
\* ------------------------------------------------------------------------
\* the (unit, values) pairs of a document and of the readings held for an obra
ParesDoDocumento(d) == {<<d[k].silo, d[k].temperaturas>> : k \in 1..Len(d)}

ParesGuardados(lo, obra) ==
    IF obra \in DOMAIN lo
    THEN {<<silo, lo[obra][silo].temperaturas>> : silo \in DOMAIN lo[obra]}
    ELSE {}

\* C11: a flush of an obra hands to the sender exactly the (unit, values)
\* pairs recorded for it and leaves no entry of it in leituras_obra and
\* ultima_leitura; a flush of an obra flushed before, with no reading in
\* between, finds nothing, sends nothing and changes nothing
C11_RegistrarEFechar ==
    [][\A o \in Obras :
          obras_para_fechar' = <<o>>
              => /\ ParesDoDocumento(enviado'.doc) = ParesGuardados(leituras_obra, o)
                 /\ Len(enviado'.doc) = Cardinality(ParesGuardados(leituras_obra, o))
                 /\ o \notin Chaves(ultima_leitura')
                 /\ ParesGuardados(leituras_obra', o) = {}
                 /\ ParesGuardados(leituras_obra, o) # {}
                       => enviado'.obra = o /\ o \notin DOMAIN leituras_obra'
                 /\ o \in tentadas
                       => /\ enviado' = NoEnvio
                          /\ UNCHANGED <<leituras_obra, ultima_leitura>>]_vars

\* C11 witness: obra o1 was flushed and its report sent, and then flushed
\* again with no reading in between
C11_Witness ==
    /\ obras_para_fechar = <<"o1">>
    /\ "o1" \in tentadas
    /\ enviado = NoEnvio
    /\ "o1" \notin DOMAIN leituras_obra

\* C12: the document of a flush holds exactly the units of the obra that have
\* a reading, each once, in the order of the obra's configuration
C12_UnidadesNaOrdemDaConfiguracao ==
    [][\A o \in Obras :
          obras_para_fechar' = <<o>>
              => LET dados == IF o \in DOMAIN leituras_obra THEN leituras_obra[o]
                                                            ELSE EmptyDict
                     com == SelectSeq(OBRA_CONFIG[o], LAMBDA nome : nome \in DOMAIN dados)
                 IN /\ Len(enviado'.doc) = Len(com)
                    /\ \A k \in 1..Len(com) :
                          /\ enviado'.doc[k].silo = com[k]
                          /\ enviado'.doc[k].temperaturas = dados[com[k]].temperaturas]_vars

\* C12 witness: obra o1 was flushed with a reading of its second unit only
C12_Witness ==
    /\ obras_para_fechar = <<"o1">>
    /\ enviado.obra = "o1"
    /\ Len(enviado.doc) = 1
    /\ enviado.doc[1].silo = "u2"

\* C15: with no declared arcs, a finished call of pdf_utils.gerar_relatorio_silo
\* has put the cables on consecutive pages of 72, the first 36 of each page in
\* row 1 and the rest in row 2, which is the page and row assignment of
\* main.gerar_relatorio_silo for the same unit
C15_SemArcosIgualMain ==
    (l_pc \in {"fim", "retorno"} /\ arcos = <<>>) =>
        /\ linhas_indices = LayoutMain(config, temperaturas)
        /\ \A p \in 1..Len(paginas_indices) :
              /\ paginas_indices[p] =
                    Faixa((p - 1) * 72, Min(p * 72, Len(config)))
              /\ linhas_indices[p][1] = SubSeq(paginas_indices[p], 1, Min(36, Len(paginas_indices[p])))
              /\ Len(paginas_indices[p]) > 36 =>
                    /\ Len(linhas_indices[p]) = 2
                    /\ linhas_indices[p][2] = SubSeq(paginas_indices[p], 37, Len(paginas_indices[p]))
        /\ l_pc = "fim" => Len(paginas_indices) = (Len(config) + 71) \div 72

\* 40 cables, no arcs: one page, cables 1-36 in row 1 and 37-40 in row 2
C15_Witness ==
    /\ l_pc = "fim"
    /\ arcos = <<>>
    /\ Len(config) = 40
    /\ linhas_indices = <<<<Faixa(0, 36), Faixa(36, 40)>>>>

\* ------------------------------------------------------------------------
\* Properties of the code-to-display mapping
\* ------------------------------------------------------------------------
\* a gray: the three components are equal
Cinza(c) == c # SemCor /\ c[1] = c[2] /\ c[2] = c[3]

\* the neutral gray #C0C0C0
CinzaNeutro == <<192, 192, 192>>

\* C16: in both files a drawn cell of raw code 0 has text "." and the neutral
\* gray, one of raw code 87 has text "-3", and one of raw code 95 has its
\* sentinel text "SE" and a gray colour
C16_Codigos0e87e95 ==
    c_pc = "desenhada" =>
        /\ valor = 0 => texto = <<".">> /\ cor = CinzaNeutro
        /\ valor = 87 => texto = <<"-", "3">>
        /\ valor = 95 => texto = <<"S", "E">> /\ Cinza(cor)

\* C17: in both files a drawn cell of raw code 85..89 has the text of code - 90
\* and the colour of the coldest temperature band, which is not the gray of
\* the sentinel codes nor that of the out-of-range codes
C17_NegativosFrios ==
    (c_pc = "desenhada" /\ valor \in 85..89) =>
        /\ texto = <<"-", DIGITOS[(90 - valor) + 1]>>
        /\ cor = CorDe(modulo, 1)
        /\ cor # CorDe(modulo, 95)
        /\ cor # CorDe(modulo, 61)
        /\ ~Cinza(cor)

\* the table of the sentinel codes
TextoSentinela(c) ==
    CASE c = 92 -> <<"S", "R">> [] c = 93 -> <<"N", "E">> [] c = 94 -> <<"T", "N">>
      [] c = 95 -> <<"S", "E">> [] c = 96 -> <<"S", "I">> [] c = 97 -> <<"T", "A">>
      [] c = 98 -> <<"S", "C">> [] c = 99 -> <<".">>

\* C18: a drawn cell of raw code 92..99 has the sentinel text of its code and
\* a gray colour, the one its file gives to every one of the eight codes
C18_SentinelasFixas ==
    (c_pc = "desenhada" /\ valor \in 92..99) =>
        /\ texto = TextoSentinela(valor)
        /\ Cinza(cor)
        /\ \A c \in 92..99 : CorDe(modulo, c) = cor

\* the cell of code 93 drawn by pdf_utils: "NE" on #C0C0C0
C18_Witness ==
    /\ c_pc = "desenhada"
    /\ modulo = "pdf_utils"
    /\ valor = 93
    /\ texto = <<"N", "E">>
    /\ cor = <<192, 192, 192>>

\* ------------------------------------------------------------------------
\* Properties of the columns
\* ------------------------------------------------------------------------
\* the sum of a sequence of numbers (half by half)
RECURSIVE Soma(_)
Soma(s) ==
    IF Len(s) = 0
    THEN 0
    ELSE IF Len(s) = 1
         THEN s[1]
         ELSE Soma(Metade1(s)) + Soma(Metade2(s))

\* the places (page, row, position) of the cells of cable idx_cabo
LugaresDoCabo(idx_cabo) ==
    {pl \in UNION {UNION {{<<p, r, c>> : c \in 1..Len(linhas_indices[p][r])} :
                              r \in 1..Len(linhas_indices[p])} :
                      p \in 1..Len(linhas_indices)} :
        linhas_indices[pl[1]][pl[2]][pl[3]] = idx_cabo}

\* C19: when the vector is shorter than the sum of the declared cable lengths,
\* the call ends; each cable got, in the declared order, the next values of the
\* vector, the cable at which the vector ends got the values that were left and
\* the cables after it none; every cable is drawn at exactly one place, so that
\* each value of the vector is in exactly one cell, those of a cable in the
\* order of the vector; the call draws nothing only when the vector is empty
C19_VetorCurto ==
    (l_pc \in {"fim", "retorno"} /\ Len(temperaturas) < Soma(config)) =>
        /\ Len(colunas) = Len(config)
        /\ \A k \in 1..Len(config) :
              LET antes == Soma(SubSeq(config, 1, k - 1))
              IN colunas[k] = SubSeq(temperaturas, antes + 1,
                                     Min(antes + config[k], Len(temperaturas)))
        /\ l_pc = "fim" =>
              \A k \in 1..Len(config) : Cardinality(LugaresDoCabo(k - 1)) = 1
        /\ l_pc = "retorno" => temperaturas = <<>>

\* three values for cables of 2, 2 and 1 sensors: the second cable is
\* truncated and the third has no cell
C19_Witness ==
    /\ l_pc = "fim"
    /\ config = <<2, 2, 1>>
    /\ temperaturas = <<1, 2, 3>>
    /\ colunas = <<<<1, 2>>, <<3>>, <<>>>>
    /\ linhas_indices = <<<<<<0, 1, 2>>>>>>

\* ------------------------------------------------------------------------
\* Properties of the scan and of the two maps
\* ------------------------------------------------------------------------
\* C21: whenever the monitor is about to start the flush of an obra of its
\* list (line 356 reads leituras_obra), the obra holds at least one unit
\* reading: no flush finds zero readings
C21_FlushNuncaVazio ==
    (m_pc = "for" /\ m_i <= Len(obras_para_fechar)) =>
        /\ ObraAtual \in DOMAIN leituras_obra
        /\ DOMAIN leituras_obra[ObraAtual] # {}

\* the monitor is about to flush the second obra of a scan
C21_Witness ==
    /\ m_pc = "for"
    /\ m_i = 2
    /\ Len(obras_para_fechar) = 2
    /\ ObraAtual \in DOMAIN leituras_obra
    /\ DOMAIN leituras_obra[ObraAtual] # {}

\* C28: whenever leituras_lock is free, leituras_obra and ultima_leitura have
\* the same obras and every obra of leituras_obra holds at least one unit
\* reading
C28_MapasComMesmasObras ==
    leituras_lock = "livre" =>
        /\ DOMAIN leituras_obra = Chaves(ultima_leitura)
        /\ \A o \in DOMAIN leituras_obra : DOMAIN leituras_obra[o] # {}

\* ------------------------------------------------------------------------
\* Properties of the stop of the application
\* ------------------------------------------------------------------------
\* the monitor is between the loop test of line 456 and the wait of line 469
EmScan == m_pc \in {"scan_lock", "scan", "for", "build", "send", "pop_lock", "pop"}

\* C22: once stop_event is set, the monitor ends the scan it is executing,
\* having called the flush of every obra of its list, and then ends; it does
\* not pass the loop test again; and the entries of the obras that are not in
\* its list stay in leituras_obra and ultima_leitura as they were
C22_ParadaGraciosa ==
    /\ (stop_event /\ EmScan) ~> (m_pc = "fim")
    /\ [][stop_event =>
            /\ (m_pc = "for" /\ m_pc' = "wait") => tentadas = Range(obras_para_fechar)
            /\ ~(m_pc = "loop" /\ m_pc' = "scan_lock")
            /\ \A o \in DOMAIN leituras_obra :
                  o \notin Range(obras_para_fechar) =>
                      /\ o \in DOMAIN leituras_obra'
                      /\ leituras_obra'[o] = leituras_obra[o]
            /\ \A o \in Chaves(ultima_leitura) :
                  o \notin Range(obras_para_fechar) =>
                      /\ o \in Chaves(ultima_leitura')
                      /\ ODictGet(ultima_leitura', o) = ODictGet(ultima_leitura, o)
       ]_vars

\* ------------------------------------------------------------------------
\* Properties of the placement of arcs and cables
\* ------------------------------------------------------------------------
\* every cable of the group is in row r of page p
NaLinha(grupo, p, r) == Range(grupo) \subseteq Range(linhas_indices[p][r])

\* C23: in a finished layout, every arc group of at most MAX_CABOS_POR_LINHA
\* cables has all its cables in one row of one page, and an arc group with
\* cables in both rows of a page has more than MAX_CABOS_POR_LINHA cables
C23_ArcoPequenoEmUmaLinha ==
    l_pc = "fim" =>
        \A k \in 1..Len(cabos_por_arco) :
            LET grupo == cabos_por_arco[k]
            IN /\ Len(grupo) <= 36 =>
                     \E p \in 1..Len(linhas_indices) :
                         /\ PaginasDe(grupo) = {p}
                         /\ \E r \in 1..Len(linhas_indices[p]) :
                               NaLinha(grupo, p, r) /\ LinhasDe(grupo, p) = {r}
               /\ (\E p \in 1..Len(linhas_indices) : Cardinality(LinhasDe(grupo, p)) = 2)
                     => Len(grupo) > 36

\* an arc of 40 cables is in both rows of its page, and an arc of 5 cables
\* after it is whole in row 2
C23_Witness ==
    /\ l_pc = "fim"
    /\ Len(cabos_por_arco) >= 2
    /\ Len(cabos_por_arco[1]) = 40
    /\ Len(cabos_por_arco[2]) = 5
    /\ Len(linhas_indices) = 1
    /\ LinhasDe(cabos_por_arco[1], 1) = {1, 2}
    /\ NaLinha(cabos_por_arco[2], 1, 2)

\* the cables of the pages, page after page
RECURSIVE Juntar(_)
Juntar(ss) ==
    IF Len(ss) = 0
    THEN <<>>
    ELSE IF Len(ss) = 1
         THEN ss[1]
         ELSE Juntar(Metade1(ss)) \o Juntar(Metade2(ss))

Crescente(s) == \A k \in 1..(Len(s) - 1) : s[k] < s[k + 1]

\* C27: in a finished layout of n cables, every cable index of 0..n-1 has
\* exactly one place (page, row, position) and no other index has one; the
\* pages, one after the other, hold the indices 0..n-1 in ascending order, so
\* each page is a contiguous range; the rows of a page hold the cables of the
\* page, each row in ascending order
C27_CabosParticionados ==
    l_pc = "fim" =>
        /\ \A idx \in 0..(Len(config) - 1) : Cardinality(LugaresDoCabo(idx)) = 1
        /\ Len(linhas_indices) = Len(paginas_indices)
        /\ Juntar(paginas_indices) = Faixa(0, Len(config))
        /\ \A p \in 1..Len(linhas_indices) :
              /\ paginas_indices[p] # <<>>
              /\ UNION {Range(linhas_indices[p][r]) : r \in 1..Len(linhas_indices[p])}
                    = Range(paginas_indices[p])
              /\ \A r \in 1..Len(linhas_indices[p]) : Crescente(linhas_indices[p][r])

\* 40 cables with arcs 5, 0, 10: the loop over the arcs stops at the arc of 0
\* cables and the 35 cables left form one group
C27_Witness ==
    /\ l_pc = "fim"
    /\ arcos = <<5, 0, 10>>
    /\ Len(config) = 40
    /\ cabos_por_arco = <<Faixa(0, 5), Faixa(5, 40)>>
    /\ linhas_indices = <<<<Faixa(0, 5), Faixa(5, 40)>>>>

\* ------------------------------------------------------------------------
\* Properties of a build that raises
\* ------------------------------------------------------------------------
\* the monitor is building the report of obra o
Construindo(o) == m_pc = "build" /\ ObraAtual = o

\* the last reading of obra o is at least RELATORIO_TIMEOUT old
VencidaAgora(o) ==
    /\ o \in Chaves(ultima_leitura)
    /\ now - ODictGet(ultima_leitura, o) >= RELATORIO_TIMEOUT

\* C30: a build that raises leaves leituras_obra and ultima_leitura as they
\* were; and an obra whose build raised is built again by a following scan,
\* unless a new reading of it is stored or the application is stopped before
C30_FalhaTentadaDeNovo ==
    /\ [][(m_pc = "build" /\ m_pc' = "for")
             => (leituras_obra' = leituras_obra /\ ultima_leitura' = ultima_leitura)]_vars
    /\ \A o \in Obras :
          (o \in erros /\ VencidaAgora(o))
              ~> (Construindo(o) \/ ~VencidaAgora(o) \/ stop_event)

\* the build of a due obra has just raised: its readings and its time are
\* still there and the scan goes on
C30_Witness ==
    /\ m_pc = "for"
    /\ "o1" \in erros
    /\ VencidaAgora("o1")
    /\ "o1" \in DOMAIN leituras_obra
    /\ DOMAIN leituras_obra["o1"] = {"u1", "u2"}
\* ------------------------------------------------------------------------
\* Properties of the flush and the sender
\* ------------------------------------------------------------------------

\* the position of a call of the flush, in the order of its code
Posicao(pc) ==
    CASE pc = "ocioso" -> 0
      [] pc = "chamada" -> 1
      [] pc = "post1" -> 2
      [] pc = "post2" -> 3
      [] pc = "retornou" -> 4
      [] pc = "saiu" -> 4

\* C24: a flush that built a document calls the sender exactly once; the
\* call makes at most two POST attempts, the second one only after the first
\* ended in a read timeout, never a third; every step of the call moves
\* forward in the code, so the call ends.
C24_UmaChamadaDoisPosts ==
    /\ [](/\ posts <= 2
          /\ chamadas <= 1
          /\ (e_pc \in {"post1", "post2", "retornou"} => chamadas = 1)
          /\ (e_pc = "post1" => posts = 0)
          /\ (e_pc = "post2" => posts = 1 /\ resultado = "timeout")
          /\ (posts = 2 => e_pc \in {"retornou", "ocioso"}))
    /\ [][/\ (e_pc # "ocioso" =>
                 \/ Posicao(e_pc') > Posicao(e_pc)
                 \/ e_pc' = "ocioso" /\ Posicao(e_pc) = 4)
          /\ (posts' = 2 /\ posts = 1 => resultado = "timeout")
          /\ (e_pc = "retornou" /\ e_pc' = "ocioso" => chamadas = 1)]_vars

C24_Witness ==
    /\ e_pc = "retornou"
    /\ chamadas = 1
    /\ posts = 2
    /\ resultado = "erro2"
    /\ numero_destino = OBRA_NUMERO[e_obra]

\* the pages a document has when every reporting unit's k layout pages are
\* followed by one blank page: TRUE marks a blank page
RECURSIVE FormaComSeparador(_, _, _)
FormaComSeparador(obra, dados, i) ==
    IF i > Len(OBRA_CONFIG[obra])
    THEN <<>>
    ELSE LET nome == OBRA_CONFIG[obra][i]
             k == IF nome \in DOMAIN dados
                  THEN Len(LayoutMain(SILO_CONFIG[<<obra, nome>>], dados[nome].temperaturas))
                  ELSE 0
         IN (IF k = 0 THEN <<>> ELSE [p \in 1..(k + 1) |-> p = k + 1])
            \o FormaComSeparador(obra, dados, i + 1)

\* C25: in the document of an obra each reporting unit's k layout pages are
\* followed by exactly one blank page, k+1 pages for the unit.
C25_SeparadorEmBranco ==
    e_pc = "chamada" =>
        [p \in 1..Len(buffer_pdf.paginas) |-> buffer_pdf.paginas[p] = <<>>]
            = FormaComSeparador(e_obra, leituras_obra[e_obra], 1)

\* C26: the date written on the pages of a unit is the ts of the unit's
\* stored reading.
C26_DataDaLeitura ==
    e_pc = "chamada" =>
        \A p \in 1..Len(buffer_pdf.paginas) :
            \A d \in 1..Len(buffer_pdf.paginas[p]) :
                LET op == buffer_pdf.paginas[p][d]
                IN op.data = FormataData(leituras_obra[e_obra][op.descricao].ts)

\* the outcomes of a call of the sender that sent nothing
Falhas == {"sem_credenciais", "pdf_grande", "b64_grande", "erro", "erro2"}

\* C29: once the flush has built the document, nothing but the end of the
\* sender follows, and whatever the sender did (skipped, failed or sent) the
\* obra is removed from leituras_obra and ultima_leitura; a later call for
\* the obra builds a document only from readings stored after the removal.
C29_LimpaMesmoSemEnviar ==
    /\ [](e_pc \in {"chamada", "post1", "post2", "retornou"} =>
            /\ e_obra \in DOMAIN leituras_obra
            /\ DOMAIN leituras_obra[e_obra] # {}
            /\ e_obra \in DOMAIN aceito_em)
    /\ [](e_pc = "retornou" =>
            resultado \in Falhas \cup {"enviado", "reenviado"})
    /\ [][/\ (e_pc \in {"chamada", "post1", "post2"} =>
                 e_pc' \in {"post1", "post2", "retornou"})
          /\ (e_pc = "retornou" =>
                 /\ e_pc' = "ocioso"
                 /\ e_obra \notin DOMAIN leituras_obra'
                 /\ e_obra \notin Chaves(ultima_leitura')
                 /\ e_obra \notin DOMAIN aceito_em')]_vars

C29_Witness ==
    /\ e_pc = "ocioso"
    /\ resultado = "pdf_grande"
    /\ buffer_pdf = NoPdf
    /\ e_obra = "o1"
    /\ "o1" \notin DOMAIN leituras_obra
    /\ "o1" \notin Chaves(ultima_leitura)
    /\ "o2" \in DOMAIN leituras_obra


====
